---- MODULE Spec2Model ----
(***************************************************************************)
(* The upload / processing page of src/app/layout.tsx (the Home component  *)
(* of lines 448-1112) as a state machine.                                  *)
(*                                                                         *)
(* The client is single threaded.  A handler runs from its invocation to   *)
(* its first await in one step; every await is one more step, in which the *)
(* collaborator performs the call (or refuses it) and the handler runs on  *)
(* to its next await or to its end.  Between two steps of a handler any    *)
(* other handler or timer may run.  A handler reads the React state of the *)
(* render that created it (its closure): those values are kept in the      *)
(* handler's task record.  Functional updates (prev => ...) read the       *)
(* state at the time they run.                                             *)
(***************************************************************************)
EXTENDS Naturals, Sequences, FiniteSets

(***************************************************************************)
(* Bounds and input domains.                                               *)
(***************************************************************************)
\* At most this many handlers other than handleLogout are in flight (awaiting
\* a collaborator) at once; a logout may be in flight beside them.
MaxInFlight == 1

\* The auth form is submitted at most this many times.
MaxAuth == 2

\* The identities the auth collaborator can issue.
Users == {"u1", "u2"}

\* The user's per-source uploads are drawn from the first two slots of
\* UPLOAD_SLOTS; a record still carries all four ready flags.
UsedSources == {"UberEats", "DoorDash"}

\* What the user may type as a restaurant name (sequences of characters).
TypedNames == {<<>>, <<" ">>, <<"X">>, <<" ", "X", " ">>, <<"Y">>}

\* The files a user may have: a sales export, and a file of another kind.
Files == {"export.csv", "menu.pdf"}

None   == "none"                 \* null, for strings
Null   == [null |-> TRUE]        \* null, for objects
NoFile == "nofile"               \* null, for File

(***************************************************************************)
(* lib/types and UPLOAD_SLOTS.                                             *)
(***************************************************************************)
UploadSource == {"UberEats", "DoorDash", "Grubhub", "Offline"}

ReadyKeys == {"ubereats_ready", "doordash_ready", "grubhub_ready", "offline_ready"}

ProcessingStatus == {"pending", "processing", "completed"}

Stage == {"auth", "onboarding", "upload", "processing"}

\* UPLOAD_SLOTS.find(s => s.source === source).key
SlotKey(source) ==
    CASE source = "UberEats" -> "ubereats_ready"
      [] source = "DoorDash" -> "doordash_ready"
      [] source = "Grubhub"  -> "grubhub_ready"
      [] source = "Offline"  -> "offline_ready"

VARIABLES
    \* React state of Home
    stage, userId, loading, initializing, error, uploadedFiles, dailyUpload,
    profile,
    \* handlers in flight, and pending setTimeout callbacks
    tasks, timers,
    \* the collaborators: auth, the profiles and daily_uploads tables, the bucket
    session, registered, profiles, daily_uploads, storage,
    \* how many times the auth form was submitted
    auths,
    \* the files the user can pick in the file dialog of a slot
    userFiles,
    \* the page and the collaborators of the first version of Home (the one
    \* with a drop zone and processing_jobs), as one record
    v1

vars == <<stage, userId, loading, initializing, error, uploadedFiles,
          dailyUpload, profile, tasks, timers,
          session, registered, profiles, daily_uploads, storage, auths, userFiles, v1>>

client == <<stage, userId, loading, initializing, error, uploadedFiles,
            dailyUpload, profile>>

collab == <<session, registered, profiles, daily_uploads, storage>>

(***************************************************************************)
(* Pure helpers.                                                           *)
(***************************************************************************)
RECURSIVE TrimStart(_)
TrimStart(s) == IF s # <<>> /\ Head(s) = " " THEN TrimStart(Tail(s)) ELSE s

RECURSIVE TrimEnd(_)
TrimEnd(s) ==
    IF s # <<>> /\ s[Len(s)] = " " THEN TrimEnd(SubSeq(s, 1, Len(s) - 1)) ELSE s

\* String.prototype.trim, on a sequence of characters
Trim(s) == TrimEnd(TrimStart(s))

\* The in-flight handler h, suspended at await pc, with its closure.
Task(h, pc, uid, name, src, file, rid) ==
    [h |-> h, pc |-> pc, uid |-> uid, name |-> name, src |-> src,
     file |-> file, rid |-> rid]

NoFiles == [s \in UploadSource |-> NoFile]

\* how many handlers other than handleLogout await a collaborator
InFlight == Cardinality({t \in tasks : t.h # "logout"})

\* readySourcesCount
readySourcesCount ==
    IF dailyUpload # Null
    THEN Cardinality({k \in ReadyKeys : dailyUpload.ready[k]})
    ELSE 0

\* isReady={dailyUpload?.[slot.key] ?? false}
isReady(source) ==
    IF dailyUpload # Null THEN dailyUpload.ready[SlotKey(source)] ELSE FALSE

\* .from("daily_uploads").select("*").eq(user_id).eq(restaurant_name).eq(upload_date)
SelectDaily(uid, name) ==
    {r \in daily_uploads : r.user_id = uid /\ r.restaurant_name = name}

\* a conflict key on (user_id, restaurant_name, upload_date)
ConflictRows_PerUser(uid, name) ==
    {r \in daily_uploads : r.restaurant_name = name /\ r.user_id = uid}

\* onConflict: 'restaurant_name,upload_date': the rows the upserted row
\* conflicts with (every row of the model is today's)
ConflictRows(uid, name) ==
    {r \in daily_uploads : r.restaurant_name = name}

\* an upsert that writes the unsupplied flags back to their defaults
UpsertedRow_ResetsFlags(uid, name, key) ==
    LET old == ConflictRows(uid, name)
    IN  [id |-> IF old # {} THEN (CHOOSE r \in old : TRUE).id
                ELSE Cardinality(daily_uploads) + 1,
         user_id |-> uid,
         restaurant_name |-> name,
         ready |-> [k \in ReadyKeys |-> k = key],
         processing_status |-> IF old # {}
                               THEN (CHOOSE r \in old : TRUE).processing_status
                               ELSE "pending"]

\* The row the upsert writes and returns: on a conflict the supplied columns
\* (user_id, the slot's key) overwrite the row's and the others stay;
\* otherwise a row is inserted with the table's defaults.
UpsertedRow(uid, name, key) ==
    LET old == ConflictRows(uid, name)
    IN  IF old # {}
        THEN LET r == CHOOSE r \in old : TRUE
             IN  [r EXCEPT !.user_id = uid, !.ready[key] = TRUE]
        ELSE [id |-> Cardinality(daily_uploads) + 1,
              user_id |-> uid,
              restaurant_name |-> name,
              ready |-> [k \in ReadyKeys |-> k = key],
              processing_status |-> "pending"]

\* .update({ processing_status }).eq('id', rid)
UpdateStatus(rid, status) ==
    {IF r.id = rid THEN [r EXCEPT !.processing_status = status] ELSE r :
        r \in daily_uploads}

\* setDailyUpload(prev => prev ? { ...prev, processing_status } : null)
WithStatus(prev, status) ==
    IF prev # Null THEN [prev EXCEPT !.processing_status = status] ELSE Null

(***************************************************************************)
(* Initial state: the useState defaults and init() of the mount effect     *)
(* awaiting getSession.  The collaborators hold what earlier visits left:  *)
(* u1 has an account, with or without a profile, and may still have a      *)
(* session; u2 has no account yet; nothing was uploaded today.  The user   *)
(* picks sales exports; the specification SpecFiles below follows a user   *)
(* who may pick any of Files.                                              *)
(***************************************************************************)
NoName == <<>>

InitState ==
    /\ stage = "auth"
    /\ userId = None
    /\ loading = FALSE
    /\ initializing = TRUE
    /\ error = None
    /\ uploadedFiles = NoFiles
    /\ dailyUpload = Null
    /\ profile = Null
    /\ tasks = {Task("init", "getSession", None, NoName, None, NoFile, 0)}
    /\ timers = {}
    /\ session \in {None, "u1"}
    /\ registered = {"u1"}
    /\ profiles \in {[u \in Users |-> NoName],
                     [u \in Users |-> IF u = "u1" THEN <<"X">> ELSE NoName]}
    /\ daily_uploads = {}
    /\ storage = {}

\* The first version of Home before it is mounted: its useState defaults,
\* no handler in flight, no timeout set; its collaborators hold what
\* earlier visits left (u1 has an account).
Unmounted ==
    [stage |-> "auth", userId |-> None, loading |-> FALSE, files |-> <<>>,
     status |-> Null, error |-> None,
     tasks |-> {}, timeouts |-> <<>>,
     user |-> None, registered |-> {"u1"}, processing_jobs |-> <<>>,
     objects |-> {}, auths |-> 0]

Init == InitState /\ auths = 0 /\ userFiles = {"export.csv"} /\ v1 = Unmounted

\* What Home renders: if (initializing) return the loading indicator;
\* otherwise the markup of the stage.
Rendered == IF initializing THEN "loading" ELSE stage

(***************************************************************************)
(* The end of the handler that called loadProfile / loadTodayUpload:       *)
(* init's finally { setInitializing(false) }, handleAuth's and             *)
(* handleOnboarding's finally { setLoading(false) }.                       *)
(***************************************************************************)
Finally(t) ==
    IF t.h = "init"
    THEN initializing' = FALSE /\ UNCHANGED loading
    ELSE loading' = FALSE /\ UNCHANGED initializing

(***************************************************************************)
(* init (mount effect): await supabase.auth.getSession()                   *)
(***************************************************************************)
\* an init that ends the initialization before loadProfile has resolved
InitSessionFound_EarlyReady(t) ==
    /\ t \in tasks /\ t.h = "init" /\ t.pc = "getSession"
    /\ session # None
    /\ userId' = session
    /\ initializing' = FALSE
    /\ tasks' = (tasks \ {t}) \cup
           {Task("init", "profiles.select", session, NoName, None, NoFile, 0)}
    /\ UNCHANGED <<stage, loading, error, uploadedFiles, dailyUpload, profile,
                   timers>>
    /\ UNCHANGED <<collab, auths, userFiles, v1>>

\* a session: setUserId, loadProfile(uid) up to its select
InitSessionFound(t) ==
    /\ t \in tasks /\ t.h = "init" /\ t.pc = "getSession"
    /\ session # None
    /\ userId' = session
    /\ tasks' = (tasks \ {t}) \cup
           {Task("init", "profiles.select", session, NoName, None, NoFile, 0)}
    /\ UNCHANGED <<stage, initializing>>
    /\ UNCHANGED <<loading, error, uploadedFiles, dailyUpload, profile, timers>>
    /\ UNCHANGED <<collab, auths, userFiles, v1>>

\* no session (else): setStage("auth"), finally
InitSessionNone(t) ==
    /\ t \in tasks /\ t.h = "init" /\ t.pc = "getSession"
    /\ session = None
    /\ stage' = "auth"
    /\ initializing' = FALSE
    /\ tasks' = tasks \ {t}
    /\ UNCHANGED userId
    /\ UNCHANGED <<loading, error, uploadedFiles, dailyUpload, profile, timers>>
    /\ UNCHANGED <<collab, auths, userFiles, v1>>

\* a catch that issues the query again
InitSessionThrows_Retries(t) ==
    /\ t \in tasks /\ t.h = "init" /\ t.pc = "getSession"
    /\ stage' = "auth"
    /\ tasks' = (tasks \ {t}) \cup
           {Task("init", "getSession", None, NoName, None, NoFile, 1 - t.rid)}
    /\ UNCHANGED <<userId, initializing>>
    /\ UNCHANGED <<loading, error, uploadedFiles, dailyUpload, profile, timers>>
    /\ UNCHANGED <<collab, auths, userFiles, v1>>

\* the query throws (catch): setStage("auth"), finally
InitSessionThrows(t) ==
    /\ t \in tasks /\ t.h = "init" /\ t.pc = "getSession"
    /\ stage' = "auth"
    /\ initializing' = FALSE
    /\ tasks' = tasks \ {t}
    /\ UNCHANGED userId
    /\ UNCHANGED <<loading, error, uploadedFiles, dailyUpload, profile, timers>>
    /\ UNCHANGED <<collab, auths, userFiles, v1>>

InitGetSession(t) ==
    InitSessionFound(t) \/ InitSessionNone(t) \/ InitSessionThrows(t)

(***************************************************************************)
(* loadProfile: await profiles.select().eq("id", uid).maybeSingle()        *)
(***************************************************************************)
\* a row: setProfile, loadTodayUpload up to its select
LoadProfileRow(t) ==
    /\ t \in tasks /\ t.h \in {"init", "auth"} /\ t.pc = "profiles.select"
    /\ profiles[t.uid] # NoName
    /\ profile' = [id |-> t.uid, restaurant_name |-> profiles[t.uid]]
    /\ tasks' = (tasks \ {t}) \cup
           {Task(t.h, "daily_uploads.select", t.uid, profiles[t.uid],
                 None, NoFile, 0)}
    /\ UNCHANGED <<stage, loading, initializing>>
    /\ UNCHANGED <<userId, error, uploadedFiles, dailyUpload, timers>>
    /\ UNCHANGED <<collab, auths, userFiles, v1>>

\* no row: setStage("onboarding"), return
LoadProfileNone(t) ==
    /\ t \in tasks /\ t.h \in {"init", "auth"} /\ t.pc = "profiles.select"
    /\ profiles[t.uid] = NoName
    /\ stage' = "onboarding"
    /\ Finally(t)
    /\ tasks' = tasks \ {t}
    /\ UNCHANGED profile
    /\ UNCHANGED <<userId, error, uploadedFiles, dailyUpload, timers>>
    /\ UNCHANGED <<collab, auths, userFiles, v1>>

\* a failed read that sends the user back to the auth stage
LoadProfileErr_ToAuth(t) ==
    /\ t \in tasks /\ t.h \in {"init", "auth"} /\ t.pc = "profiles.select"
    /\ stage' = "auth"
    /\ Finally(t)
    /\ tasks' = tasks \ {t}
    /\ UNCHANGED profile
    /\ UNCHANGED <<userId, error, uploadedFiles, dailyUpload, timers>>
    /\ UNCHANGED <<collab, auths, userFiles, v1>>

\* profileError, or the call throws: setStage("onboarding")
LoadProfileErr(t) ==
    /\ t \in tasks /\ t.h \in {"init", "auth"} /\ t.pc = "profiles.select"
    /\ stage' = "onboarding"
    /\ Finally(t)
    /\ tasks' = tasks \ {t}
    /\ UNCHANGED profile
    /\ UNCHANGED <<userId, error, uploadedFiles, dailyUpload, timers>>
    /\ UNCHANGED <<collab, auths, userFiles, v1>>

LoadProfile(t) == LoadProfileRow(t) \/ LoadProfileNone(t) \/ LoadProfileErr(t)

\* a derivation that sends only 'processing' to the processing stage
StageOfRow_ProcessingOnly(data) ==
    IF data.processing_status = "processing" THEN "processing" ELSE "upload"

\* the stage loadTodayUpload sets for a row it found
StageOfRow(data) ==
    IF data.processing_status = "processing" \/ data.processing_status = "completed"
    THEN "processing"
    ELSE "upload"

(***************************************************************************)
(* loadTodayUpload: await daily_uploads.select()...maybeSingle()           *)
(***************************************************************************)
\* data: setDailyUpload(data), the stage by its status
LoadTodayUploadData(t) ==
    /\ t \in tasks /\ t.pc = "daily_uploads.select"
    /\ \E data \in SelectDaily(t.uid, t.name) :
          /\ dailyUpload' = data
          /\ stage' = StageOfRow(data)
    /\ Finally(t)
    /\ tasks' = tasks \ {t}
    /\ UNCHANGED <<userId, error, uploadedFiles, profile, timers>>
    /\ UNCHANGED <<collab, auths, userFiles, v1>>

\* no row: setStage("upload")
LoadTodayUploadNone(t) ==
    /\ t \in tasks /\ t.pc = "daily_uploads.select"
    /\ SelectDaily(t.uid, t.name) = {}
    /\ stage' = "upload"
    /\ UNCHANGED dailyUpload
    /\ Finally(t)
    /\ tasks' = tasks \ {t}
    /\ UNCHANGED <<userId, error, uploadedFiles, profile, timers>>
    /\ UNCHANGED <<collab, auths, userFiles, v1>>

\* error (data is null), or the call throws: setStage("upload")
LoadTodayUploadErr(t) ==
    /\ t \in tasks /\ t.pc = "daily_uploads.select"
    /\ stage' = "upload"
    /\ UNCHANGED dailyUpload
    /\ Finally(t)
    /\ tasks' = tasks \ {t}
    /\ UNCHANGED <<userId, error, uploadedFiles, profile, timers>>
    /\ UNCHANGED <<collab, auths, userFiles, v1>>

LoadTodayUpload(t) ==
    LoadTodayUploadData(t) \/ LoadTodayUploadNone(t) \/ LoadTodayUploadErr(t)

(***************************************************************************)
(* handleAuth: the button (disabled while loading) or the Enter key of the *)
(* email and password inputs (not disabled) of the auth stage.  The typed  *)
(* email and the auth mode are the step's inputs.                          *)
(***************************************************************************)
HandleAuth(mode, email) ==
    /\ ~initializing /\ stage = "auth"
    /\ InFlight < MaxInFlight
    /\ auths < MaxAuth
    /\ auths' = auths + 1
    /\ error' = None
    /\ loading' = TRUE
    /\ tasks' = tasks \cup
          {Task("auth", IF mode = "login" THEN "signInWithPassword" ELSE "signUp",
                email, NoName, None, NoFile, 0)}
    /\ UNCHANGED <<stage, userId, initializing, uploadedFiles, dailyUpload,
                   profile, timers>>
    /\ UNCHANGED <<collab, userFiles, v1>>

\* catch (e) { setError(e.message ?? ...) } finally { setLoading(false) }
\* (a collaborator's error carries a message)
CatchError(t, message) ==
    /\ error' = message
    /\ loading' = FALSE
    /\ tasks' = tasks \ {t}

\* await supabase.auth.signInWithPassword({ email, password })
\* data.user: setUserId, loadProfile(uid) up to its select
SignInOk(t) ==
    /\ t \in tasks /\ t.h = "auth" /\ t.pc = "signInWithPassword"
    /\ t.uid \in registered
    /\ session' = t.uid
    /\ userId' = t.uid
    /\ tasks' = (tasks \ {t}) \cup
           {Task("auth", "profiles.select", t.uid, NoName, None, NoFile, 0)}
    /\ UNCHANGED <<error, loading>>
    /\ UNCHANGED <<stage, initializing, uploadedFiles, dailyUpload, profile, timers>>
    /\ UNCHANGED <<registered, profiles, daily_uploads, storage, auths, userFiles, v1>>

\* a failed login that routes to onboarding
SignInErr_ToOnboarding(t) ==
    /\ t \in tasks /\ t.h = "auth" /\ t.pc = "signInWithPassword"
    /\ CatchError(t, "e.message")
    /\ stage' = "onboarding"
    /\ UNCHANGED <<userId, initializing, uploadedFiles, dailyUpload, profile, timers>>
    /\ UNCHANGED <<collab, auths, userFiles, v1>>

\* error (unknown account, wrong password, ...): throw, catch, finally
SignInErr(t) ==
    /\ t \in tasks /\ t.h = "auth" /\ t.pc = "signInWithPassword"
    /\ CatchError(t, "e.message")
    /\ UNCHANGED <<stage, userId, initializing, uploadedFiles, dailyUpload,
                   profile, timers>>
    /\ UNCHANGED <<collab, auths, userFiles, v1>>

SignIn(t) == SignInOk(t) \/ SignInErr(t)

\* a signup that skips the onboarding stage
SignUpOk_ToUpload(t) ==
    /\ t \in tasks /\ t.h = "auth" /\ t.pc = "signUp"
    /\ t.uid \notin registered
    /\ registered' = registered \cup {t.uid}
    /\ session' = t.uid
    /\ userId' = t.uid
    /\ stage' = "upload"
    /\ loading' = FALSE
    /\ tasks' = tasks \ {t}
    /\ UNCHANGED error
    /\ UNCHANGED <<initializing, uploadedFiles, dailyUpload, profile, timers>>
    /\ UNCHANGED <<profiles, daily_uploads, storage, auths, userFiles, v1>>

\* await supabase.auth.signUp({ email, password })
\* data.user: setUserId, setStage("onboarding"), finally
SignUpOk(t) ==
    /\ t \in tasks /\ t.h = "auth" /\ t.pc = "signUp"
    /\ t.uid \notin registered
    /\ registered' = registered \cup {t.uid}
    /\ session' = t.uid
    /\ userId' = t.uid
    /\ stage' = "onboarding"
    /\ loading' = FALSE
    /\ tasks' = tasks \ {t}
    /\ UNCHANGED error
    /\ UNCHANGED <<initializing, uploadedFiles, dailyUpload, profile, timers>>
    /\ UNCHANGED <<profiles, daily_uploads, storage, auths, userFiles, v1>>

\* error (the account exists, ...): throw, catch, finally
SignUpErr(t) ==
    /\ t \in tasks /\ t.h = "auth" /\ t.pc = "signUp"
    /\ CatchError(t, "e.message")
    /\ UNCHANGED <<stage, userId, initializing, uploadedFiles, dailyUpload,
                   profile, timers>>
    /\ UNCHANGED <<collab, auths, userFiles, v1>>

SignUp(t) == SignUpOk(t) \/ SignUpErr(t)

\* a submission that validates the name as typed, untrimmed
HandleOnboarding_Untrimmed(restaurantName) ==
    /\ ~initializing /\ stage = "onboarding"
    /\ IF userId = None \/ restaurantName = <<>>
       THEN /\ error' = "Please enter a restaurant name"
            /\ UNCHANGED <<loading, tasks>>
       ELSE /\ InFlight < MaxInFlight
            /\ loading' = TRUE
            /\ error' = None
            /\ tasks' = tasks \cup
                  {Task("onboarding", "profiles.upsert", userId,
                        Trim(restaurantName), None, NoFile, 0)}
    /\ UNCHANGED <<stage, userId, initializing, uploadedFiles, dailyUpload,
                   profile, timers>>
    /\ UNCHANGED <<collab, auths, userFiles, v1>>

(***************************************************************************)
(* handleOnboarding: the button or the Enter key of the onboarding stage;  *)
(* the typed restaurant name is the step's input.                          *)
(***************************************************************************)
HandleOnboarding(restaurantName) ==
    /\ ~initializing /\ stage = "onboarding"
    /\ IF userId = None \/ Trim(restaurantName) = <<>>
       THEN /\ error' = "Please enter a restaurant name"
            /\ UNCHANGED <<loading, tasks>>
       ELSE /\ InFlight < MaxInFlight
            /\ loading' = TRUE
            /\ error' = None
            /\ tasks' = tasks \cup
                  {Task("onboarding", "profiles.upsert", userId,
                        Trim(restaurantName), None, NoFile, 0)}
    /\ UNCHANGED <<stage, userId, initializing, uploadedFiles, dailyUpload,
                   profile, timers>>
    /\ UNCHANGED <<collab, auths, userFiles, v1>>

\* a success path that keeps the in-memory profile as it was
UpsertProfileOk_KeepsLocal(t) ==
    /\ t \in tasks /\ t.h = "onboarding" /\ t.pc = "profiles.upsert"
    /\ profiles' = [profiles EXCEPT ![t.uid] = t.name]
    /\ tasks' = (tasks \ {t}) \cup
           {Task("onboarding", "daily_uploads.select", t.uid, t.name,
                 None, NoFile, 0)}
    /\ UNCHANGED <<error, loading, profile>>
    /\ UNCHANGED <<stage, userId, initializing, uploadedFiles, dailyUpload, timers>>
    /\ UNCHANGED <<session, registered, daily_uploads, storage, auths, userFiles, v1>>

\* await profiles.upsert({ id: userId, restaurant_name, updated_at })
\* written (the row of the id is created or replaced): setProfile,
\* loadTodayUpload up to its select
UpsertProfileOk(t) ==
    /\ t \in tasks /\ t.h = "onboarding" /\ t.pc = "profiles.upsert"
    /\ profiles' = [profiles EXCEPT ![t.uid] = t.name]
    /\ profile' = [id |-> t.uid, restaurant_name |-> t.name]
    /\ tasks' = (tasks \ {t}) \cup
           {Task("onboarding", "daily_uploads.select", t.uid, t.name,
                 None, NoFile, 0)}
    /\ UNCHANGED <<error, loading>>
    /\ UNCHANGED <<stage, userId, initializing, uploadedFiles, dailyUpload, timers>>
    /\ UNCHANGED <<session, registered, daily_uploads, storage, auths, userFiles, v1>>

\* error: throw, catch, finally
UpsertProfileErr(t) ==
    /\ t \in tasks /\ t.h = "onboarding" /\ t.pc = "profiles.upsert"
    /\ CatchError(t, "e.message")
    /\ UNCHANGED profile
    /\ UNCHANGED <<stage, userId, initializing, uploadedFiles, dailyUpload, timers>>
    /\ UNCHANGED <<collab, auths, userFiles, v1>>

UpsertProfile(t) == UpsertProfileOk(t) \/ UpsertProfileErr(t)

(***************************************************************************)
(* handleFileSelect: the file input of a slot that is not ready.           *)
(***************************************************************************)
HandleFileSelect(source, file) ==
    /\ ~initializing /\ stage = "upload"
    /\ ~isReady(source)
    /\ uploadedFiles' = [uploadedFiles EXCEPT ![source] = file]
    /\ UNCHANGED <<stage, userId, loading, initializing, error, dailyUpload,
                   profile, tasks, timers>>
    /\ UNCHANGED <<collab, auths, userFiles, v1>>

(***************************************************************************)
(* handleUploadSource: the Upload button of a slot that is not ready and   *)
(* has a file, disabled while loading.                                     *)
(***************************************************************************)
HandleUploadSource(source) ==
    /\ ~initializing /\ stage = "upload"
    /\ ~isReady(source) /\ uploadedFiles[source] # NoFile /\ ~loading
    /\ IF uploadedFiles[source] = NoFile \/ userId = None \/ profile = Null
       THEN /\ error' = "Missing file or profile information"
            /\ UNCHANGED <<loading, tasks>>
       ELSE /\ InFlight < MaxInFlight
            /\ loading' = TRUE
            /\ error' = None
            /\ tasks' = tasks \cup
                  {Task("upload", "storage.upload", userId, profile.restaurant_name,
                        source, uploadedFiles[source], 0)}
    /\ UNCHANGED <<stage, userId, initializing, uploadedFiles, dailyUpload,
                   profile, timers>>
    /\ UNCHANGED <<collab, auths, userFiles, v1>>

\* await storage.from("raw-uploads").upload(path, file, { upsert: true })
\* path = `${profile.restaurant_name}/${today}/${source}.csv`
\* stored (overwriting what the path held); the slot is found
StorageUploadOk(t) ==
    /\ t \in tasks /\ t.h = "upload" /\ t.pc = "storage.upload"
    /\ storage' = {o \in storage : o.path # <<t.name, t.src>>} \cup
                     {[path |-> <<t.name, t.src>>, file |-> t.file]}
    /\ tasks' = (tasks \ {t}) \cup {[t EXCEPT !.pc = "daily_uploads.upsert"]}
    /\ UNCHANGED <<error, loading>>
    /\ UNCHANGED <<stage, userId, initializing, uploadedFiles, dailyUpload,
                   profile, timers>>
    /\ UNCHANGED <<session, registered, profiles, daily_uploads, auths, userFiles, v1>>

\* uploadError: throw, catch, finally
StorageUploadErr(t) ==
    /\ t \in tasks /\ t.h = "upload" /\ t.pc = "storage.upload"
    /\ CatchError(t, "e.message")
    /\ UNCHANGED <<stage, userId, initializing, uploadedFiles, dailyUpload,
                   profile, timers>>
    /\ UNCHANGED <<collab, auths, userFiles, v1>>

StorageUpload(t) == StorageUploadOk(t) \/ StorageUploadErr(t)

\* a plain insert: a new row for every upload, whatever the table holds
UpsertDailyOk_Insert(t) ==
    /\ t \in tasks /\ t.h = "upload" /\ t.pc = "daily_uploads.upsert"
    /\ LET uploadData == [id |-> Cardinality(daily_uploads) + 1,
                          user_id |-> t.uid,
                          restaurant_name |-> t.name,
                          ready |-> [k \in ReadyKeys |-> k = SlotKey(t.src)],
                          processing_status |-> "pending"]
       IN  /\ daily_uploads' = daily_uploads \cup {uploadData}
           /\ dailyUpload' = uploadData
    /\ uploadedFiles' = [uploadedFiles EXCEPT ![t.src] = NoFile]
    /\ loading' = FALSE
    /\ tasks' = tasks \ {t}
    /\ UNCHANGED <<error, stage, userId, initializing, profile, timers>>
    /\ UNCHANGED <<session, registered, profiles, storage, auths, userFiles, v1>>

\* await daily_uploads.upsert({...}, { onConflict }).select().single()
\* uploadData: setDailyUpload, clear the slot's file, finally
UpsertDailyOk(t) ==
    /\ t \in tasks /\ t.h = "upload" /\ t.pc = "daily_uploads.upsert"
    /\ LET uploadData == UpsertedRow(t.uid, t.name, SlotKey(t.src))
       IN  /\ daily_uploads' =
                 (daily_uploads \ ConflictRows(t.uid, t.name)) \cup {uploadData}
           /\ dailyUpload' = uploadData
    /\ uploadedFiles' = [uploadedFiles EXCEPT ![t.src] = NoFile]
    /\ loading' = FALSE
    /\ tasks' = tasks \ {t}
    /\ UNCHANGED <<error, stage, userId, initializing, profile, timers>>
    /\ UNCHANGED <<session, registered, profiles, storage, auths, userFiles, v1>>

\* a failure path that also clears the slot's file
UpsertDailyErr_ClearsFile(t) ==
    /\ t \in tasks /\ t.h = "upload" /\ t.pc = "daily_uploads.upsert"
    /\ CatchError(t, "e.message")
    /\ uploadedFiles' = [uploadedFiles EXCEPT ![t.src] = NoFile]
    /\ UNCHANGED <<stage, userId, initializing, dailyUpload, profile, timers>>
    /\ UNCHANGED <<collab, auths, userFiles, v1>>

\* upsertError: throw, catch, finally
UpsertDailyErr(t) ==
    /\ t \in tasks /\ t.h = "upload" /\ t.pc = "daily_uploads.upsert"
    /\ CatchError(t, "e.message")
    /\ UNCHANGED <<stage, userId, initializing, uploadedFiles, dailyUpload,
                   profile, timers>>
    /\ UNCHANGED <<collab, auths, userFiles, v1>>

UpsertDaily(t) == UpsertDailyOk(t) \/ UpsertDailyErr(t)

(***************************************************************************)
(* handleStartProcessing: the button of the upload stage, rendered when    *)
(* readySourcesCount > 0 and disabled while loading.  The handler is also  *)
(* taken to be invoked where no source is ready and no button is shown.    *)
(***************************************************************************)
\* a guard that tests the identity only
StartGuard_IdentityOnly == userId = None

\* if (!dailyUpload || !userId) return;
StartGuard == dailyUpload = Null \/ userId = None

HandleStartProcessing ==
    /\ ~initializing /\ stage = "upload"
    /\ (readySourcesCount > 0 /\ ~loading) \/ readySourcesCount = 0
    /\ IF StartGuard
       THEN UNCHANGED <<loading, error, tasks>>
       ELSE IF dailyUpload = Null
       THEN \* dailyUpload.id throws inside the try: catch, finally
            /\ error' = "e.message"
            /\ loading' = FALSE
            /\ UNCHANGED tasks
       ELSE /\ InFlight < MaxInFlight
            /\ loading' = TRUE
            /\ error' = None
            /\ tasks' = tasks \cup
                  {Task("start", "daily_uploads.update", userId, NoName, None,
                        NoFile, dailyUpload.id)}
    /\ UNCHANGED <<stage, userId, initializing, uploadedFiles, dailyUpload,
                   profile, timers>>
    /\ UNCHANGED <<collab, auths, userFiles, v1>>

\* await daily_uploads.update({ processing_status: 'processing' }).eq('id', id)
\* then setDailyUpload, setStage, setTimeout(..., 8000), finally
UpdateProcessingOk(t) ==
    /\ t \in tasks /\ t.h = "start" /\ t.pc = "daily_uploads.update"
    /\ daily_uploads' = UpdateStatus(t.rid, "processing")
    /\ dailyUpload' = WithStatus(dailyUpload, "processing")
    /\ stage' = "processing"
    /\ timers' = timers \cup {[rid |-> t.rid, uid |-> t.uid, reset |-> FALSE]}
    /\ loading' = FALSE
    /\ tasks' = tasks \ {t}
    /\ UNCHANGED <<error, userId, initializing, uploadedFiles, profile>>
    /\ UNCHANGED <<session, registered, profiles, storage, auths, userFiles, v1>>

\* a failed update whose handler sets the completion timer all the same
UpdateProcessingErr_StillSchedules(t) ==
    /\ t \in tasks /\ t.h = "start" /\ t.pc = "daily_uploads.update"
    /\ CatchError(t, "e.message")
    /\ timers' = timers \cup {[rid |-> t.rid, uid |-> t.uid, reset |-> FALSE]}
    /\ UNCHANGED <<stage, userId, initializing, uploadedFiles, dailyUpload,
                   profile>>
    /\ UNCHANGED <<collab, auths, userFiles, v1>>

\* error: throw, catch, finally
UpdateProcessingErr(t) ==
    /\ t \in tasks /\ t.h = "start" /\ t.pc = "daily_uploads.update"
    /\ CatchError(t, "e.message")
    /\ UNCHANGED <<stage, userId, initializing, uploadedFiles, dailyUpload,
                   profile, timers>>
    /\ UNCHANGED <<collab, auths, userFiles, v1>>

UpdateProcessing(t) == UpdateProcessingOk(t) \/ UpdateProcessingErr(t)

\* a callback that marks the in-memory record only and writes nothing
TimerFireOk_NoWrite(tm) ==
    /\ tm \in timers
    /\ timers' = timers \ {tm}
    /\ dailyUpload' = WithStatus(dailyUpload, "completed")
    /\ UNCHANGED <<stage, userId, loading, initializing, error, uploadedFiles,
                   profile, tasks, collab, auths, userFiles, v1>>

(***************************************************************************)
(* The setTimeout callback: await update({ processing_status:              *)
(* 'completed' }).eq('id', id), whose result is not read, then             *)
(* setDailyUpload(prev => ...).  The timeout and the await are one step:   *)
(* the callback reads no state before its await resolves.  A timer keeps   *)
(* the record id and the identity of its closure; reset is set once a      *)
(* logout has run since the timer was set.                                 *)
(***************************************************************************)
TimerFireOk(tm) ==
    /\ tm \in timers
    /\ daily_uploads' = UpdateStatus(tm.rid, "completed")
    /\ dailyUpload' = WithStatus(dailyUpload, "completed")
    /\ timers' = timers \ {tm}
    /\ UNCHANGED <<stage, userId, loading, initializing, error, uploadedFiles,
                   profile, tasks>>
    /\ UNCHANGED <<session, registered, profiles, storage, auths, userFiles, v1>>

\* the update returns an error
TimerFireErr(tm) ==
    /\ tm \in timers
    /\ dailyUpload' = WithStatus(dailyUpload, "completed")
    /\ timers' = timers \ {tm}
    /\ UNCHANGED <<stage, userId, loading, initializing, error, uploadedFiles,
                   profile, tasks>>
    /\ UNCHANGED <<collab, auths, userFiles, v1>>

TimerFire(tm) == TimerFireOk(tm) \/ TimerFireErr(tm)

(***************************************************************************)
(* handleLogout: the Log Out button, rendered while userId is set and not  *)
(* disabled while loading.                                                 *)
(***************************************************************************)
HandleLogout ==
    /\ ~initializing /\ userId # None
    /\ tasks' = tasks \cup {Task("logout", "signOut", None, NoName, None, NoFile, 0)}
    /\ UNCHANGED <<client, timers>>
    /\ UNCHANGED <<collab, auths, userFiles, v1>>

\* a logout that leaves the daily-upload record in memory
SignOut_KeepsRecord(t) ==
    /\ t \in tasks /\ t.h = "logout" /\ t.pc = "signOut"
    /\ session' = None
    /\ userId' = None
    /\ stage' = "auth"
    /\ uploadedFiles' = NoFiles
    /\ profile' = Null
    /\ timers' = {[tm EXCEPT !.reset = TRUE] : tm \in timers}
    /\ tasks' = tasks \ {t}
    /\ UNCHANGED <<loading, initializing, error, dailyUpload>>
    /\ UNCHANGED <<registered, profiles, daily_uploads, storage, auths, userFiles, v1>>

\* await supabase.auth.signOut(), whose result is not read, then the resets.
\* signOut drops the client's session whether or not the server call fails.
\* The timers are not cleared.
SignOut(t) ==
    /\ t \in tasks /\ t.h = "logout" /\ t.pc = "signOut"
    /\ session' = None
    /\ userId' = None
    /\ stage' = "auth"
    /\ uploadedFiles' = NoFiles
    /\ dailyUpload' = Null
    /\ profile' = Null
    /\ timers' = {[tm EXCEPT !.reset = TRUE] : tm \in timers}
    /\ tasks' = tasks \ {t}
    /\ UNCHANGED <<loading, initializing, error>>
    /\ UNCHANGED <<registered, profiles, daily_uploads, storage, auths, userFiles, v1>>

Next ==
    \/ \E t \in tasks : InitGetSession(t)
    \/ \E t \in tasks : LoadProfile(t)
    \/ \E t \in tasks : LoadTodayUpload(t)
    \/ \E mode \in {"login", "signup"}, email \in Users : HandleAuth(mode, email)
    \/ \E t \in tasks : SignIn(t)
    \/ \E t \in tasks : SignUp(t)
    \/ \E n \in TypedNames : HandleOnboarding(n)
    \/ \E t \in tasks : UpsertProfile(t)
    \/ \E s \in UsedSources, f \in userFiles \cup {NoFile} : HandleFileSelect(s, f)
    \/ \E s \in UsedSources : HandleUploadSource(s)
    \/ \E t \in tasks : StorageUpload(t)
    \/ \E t \in tasks : UpsertDaily(t)
    \/ HandleStartProcessing
    \/ \E t \in tasks : UpdateProcessing(t)
    \/ \E tm \in timers : TimerFire(tm)
    \/ HandleLogout
    \/ \E t \in tasks : SignOut(t)

Spec == Init /\ [][Next]_vars

(***************************************************************************)
(* Properties.                                                             *)
(***************************************************************************)
\* the persisted rows of identity uid
RowsOf(uid) == {r \in daily_uploads : r.user_id = uid}

\* pending -> processing -> completed
Rank(status) ==
    CASE status = "pending"    -> 0
      [] status = "processing" -> 1
      [] status = "completed"  -> 2

\* C1: a completion timer set in a session that has since been logged out
\* changes neither the in-memory daily-upload record nor the persisted rows
\* of a different identity that is now logged in and has uploaded a source
\* (stated for the case where that identity's record is not the timer's).
C1_StaleTimerSparesNewSession ==
    [][\A tm \in timers :
          ( /\ tm.reset
            /\ userId # None /\ userId # tm.uid
            /\ dailyUpload # Null /\ dailyUpload.user_id = userId
            /\ dailyUpload.id # tm.rid
            /\ TimerFire(tm) )
          => /\ dailyUpload' = dailyUpload
             /\ RowsOf(userId)' = RowsOf(userId)]_vars

\* C2: a completion timer that fires after handleLogout has run writes
\* nothing to the persisted store and changes no in-memory daily-upload state.
C2_NoFireAfterLogout ==
    [][\A tm \in timers :
          (tm.reset /\ TimerFire(tm))
          => UNCHANGED <<daily_uploads, dailyUpload>>]_vars

\* C3: no step moves the persisted processing_status of a record backward
\* along pending -> processing -> completed.
C3_StatusMonotonic ==
    [][\A r \in daily_uploads : \A q \in daily_uploads' :
          q.id = r.id => Rank(q.processing_status) >= Rank(r.processing_status)]_vars

\* C4: whenever handleStartProcessing issues its update, the persisted
\* processing_status of the record it targets is 'pending'.
C4_StartOnlyFromPending ==
    [][(~StartGuard /\ HandleStartProcessing)
          => \A r \in daily_uploads :
                r.id = dailyUpload.id => r.processing_status = "pending"]_vars

\* C5: where no source is ready, invoking handleStartProcessing is a no-op:
\* no collaborator call, no change of status, stage or any other state.
C5_StartRejectedWhenNothingReady ==
    [][(readySourcesCount = 0 /\ HandleStartProcessing) => UNCHANGED vars]_vars

\* the upload stage of a logged-in identity with nothing ready today
C5_Witness ==
    /\ stage = "upload" /\ ~initializing
    /\ userId # None /\ profile # Null
    /\ readySourcesCount = 0

\* C6: every successful upload of a source leaves exactly one record for its
\* restaurant name (and today), with that source's flag true and the other
\* three flags as they were; repeated by the same identity for a source
\* that is already ready, it leaves the table as it was.
C6_UploadIdempotent ==
    [][\A t \in tasks :
          UpsertDailyOk(t) =>
             LET key    == SlotKey(t.src)
                 before == {r \in daily_uploads : r.restaurant_name = t.name}
                 after  == {r \in daily_uploads' : r.restaurant_name = t.name}
             IN  /\ Cardinality(after) = 1
                 /\ \A r \in after :
                       /\ r.ready[key]
                       /\ \A k \in ReadyKeys \ {key} :
                             r.ready[k] = (\E b \in before : b.ready[k])
                 /\ (\E b \in before : b.ready[key] /\ b.user_id = t.uid)
                       => daily_uploads' = daily_uploads]_vars

\* a second upload of a source whose flag is already true, beside another
\* ready source, has stored its file and awaits its upsert
C6_Witness ==
    \E t \in tasks :
       /\ t.h = "upload" /\ t.pc = "daily_uploads.upsert"
       /\ \E r \in daily_uploads :
             /\ r.restaurant_name = t.name
             /\ r.user_id = t.uid
             /\ r.ready[SlotKey(t.src)]
             /\ \E k \in ReadyKeys \ {SlotKey(t.src)} : r.ready[k]

\* the persisted status of the record with id rid, in the next state
StatusAfter(rid) ==
    {r.processing_status : r \in {q \in daily_uploads' : q.id = rid}}

\* C8: right after handleStartProcessing succeeds the persisted record, the
\* in-memory record and the stage are all 'processing'.
C8_StartTransitionsTogether ==
    [][\A t \in tasks :
          UpdateProcessingOk(t) =>
             /\ StatusAfter(t.rid) = {"processing"}
             /\ dailyUpload' # Null
             /\ dailyUpload'.processing_status = "processing"
             /\ stage' = "processing"]_vars

\* C9: no step of an upload that fails (its invocation, its blob write, the
\* failing call) changes the in-memory record, the selected files or the
\* stage; the failing call sets an error message and ends the handler.
C9_FailedUploadLeavesState ==
    [][/\ \A s \in UsedSources :
             HandleUploadSource(s) => UNCHANGED <<dailyUpload, uploadedFiles, stage>>
       /\ \A t \in tasks :
             /\ StorageUploadOk(t) => UNCHANGED <<dailyUpload, uploadedFiles, stage>>
             /\ (StorageUploadErr(t) \/ UpsertDailyErr(t)) =>
                   /\ UNCHANGED <<dailyUpload, uploadedFiles, stage>>
                   /\ error' # None
                   /\ tasks' = tasks \ {t}]_vars

\* an upload whose blob write succeeded and whose upsert failed
C9_Witness ==
    /\ error = "e.message" /\ ~loading /\ tasks = {}
    /\ stage = "upload" /\ dailyUpload = Null
    /\ \E s \in UsedSources : uploadedFiles[s] # NoFile
    /\ storage # {} /\ daily_uploads = {}

\* C10: every persisted record stays, and a ready flag that is true stays
\* true, in every step.
C10_ReadyFlagsMonotonic ==
    [][\A r \in daily_uploads : \E q \in daily_uploads' :
          /\ q.id = r.id
          /\ \A k \in ReadyKeys : r.ready[k] => q.ready[k]]_vars

\* a completed record with two ready flags
C10_Witness ==
    \E r \in daily_uploads :
       /\ r.processing_status = "completed"
       /\ Cardinality({k \in ReadyKeys : r.ready[k]}) >= 2

(***************************************************************************)
(* The event loop runs every pending setTimeout callback: a timer that     *)
(* stays pending eventually fires.  The fair specification follows the     *)
(* page from its construction through one submission of the auth form.     *)
(***************************************************************************)
RecordIds == 1..2

TimerRecords == [rid : RecordIds, uid : Users, reset : BOOLEAN]

InitFair ==
    InitState /\ auths = MaxAuth - 1 /\ userFiles = {"export.csv"} /\ v1 = Unmounted

SpecFair ==
    InitFair /\ [][Next]_vars /\ \A tm \in TimerRecords : WF_vars(TimerFire(tm))

\* a completion timer for record rid is pending
TimerPending(rid) == \E tm \in timers : tm.rid = rid

\* the persisted status of the record with id rid
StatusOf(rid) ==
    {r.processing_status : r \in {q \in daily_uploads : q.id = rid}}

\* C7: once handleStartProcessing has written 'processing' for a record (its
\* completion timer is set, the session holds the record), the persisted and
\* the in-memory status of that record eventually are 'completed' with no
\* further user input, that is unless the user has clicked Log Out meanwhile.
C7_EventuallyCompleted ==
    \A rid \in RecordIds :
       (TimerPending(rid) /\ dailyUpload # Null /\ dailyUpload.id = rid) ~>
          \/ userId = None
          \/ \E t \in tasks : t.h = "logout"
          \/ /\ StatusOf(rid) = {"completed"}
             /\ dailyUpload # Null
             /\ dailyUpload.id = rid
             /\ dailyUpload.processing_status = "completed"

\* C7, amended: the completion timer of a successful handleStartProcessing
\* eventually fires, with no user input.  When its write succeeds the
\* persisted status of its record is 'completed' and so is the in-memory
\* status if the session still holds that record; a failed write is not
\* retried and leaves the persisted records as they were.
C7_TimerCompletes ==
    /\ \A rid \in RecordIds : TimerPending(rid) ~> ~TimerPending(rid)
    /\ [][\A tm \in timers :
             /\ TimerFireOk(tm) =>
                   /\ StatusAfter(tm.rid) = {"completed"}
                   /\ (dailyUpload # Null /\ dailyUpload.id = tm.rid)
                         => /\ dailyUpload' # Null
                            /\ dailyUpload'.id = tm.rid
                            /\ dailyUpload'.processing_status = "completed"
             /\ TimerFireErr(tm) => daily_uploads' = daily_uploads]_vars

C7_Witness ==
    /\ timers = {}
    /\ stage = "processing"
    /\ dailyUpload # Null
    /\ dailyUpload.processing_status = "completed"
    /\ StatusOf(dailyUpload.id) = {"completed"}

(***************************************************************************)
(* Uploads of several sources.                                             *)
(***************************************************************************)
\* the restaurant names a profile can carry
RestaurantNames == {Trim(n) : n \in TypedNames} \ {NoName}

\* the persisted rows of a restaurant (every row of the model is today's)
RowsNamed(name) == {r \in daily_uploads : r.restaurant_name = name}

\* the ready flags that are true for a restaurant today
ReadySet(name) == {k \in ReadyKeys : \E r \in RowsNamed(name) : r.ready[k]}

C12_RestoreWithoutProfileOnboards ==
    [][\A t \in tasks :
          (t.h = "init" /\ t.pc = "profiles.select") =>
             /\ (profiles[t.uid] = NoName /\ LoadProfile(t)) =>
                   /\ stage' = "onboarding"
                   /\ userId' = t.uid
                   /\ ~initializing'
                   /\ tasks' = tasks \ {t}
             /\ LoadProfileErr(t) =>
                   /\ stage' = "onboarding"
                   /\ userId' = t.uid
                   /\ ~initializing'
                   /\ tasks' = tasks \ {t}]_vars

\* the restored session of an identity without a profile row, resolved
C12_Witness ==
    /\ auths = 0 /\ ~initializing /\ tasks = {}
    /\ session = "u1" /\ userId = "u1"
    /\ profiles["u1"] = NoName
    /\ stage = "onboarding"

\* C13: when a login or a session restore of an identity that has a profile
\* finds no daily-upload record of that identity (nor of its restaurant)
\* for today, the stage it resolves is 'upload', the in-memory record is absent and no slot shows as
\* ready, whatever happened in the client before.
C13_NoRecordResolvesToEmptyUpload ==
    [][\A t \in tasks :
          ( /\ t.h \in {"init", "auth"}
            /\ RowsOf(t.uid) = {} /\ RowsNamed(t.name) = {}
            /\ LoadTodayUploadNone(t) )
             => /\ stage' = "upload"
                /\ dailyUpload' = Null
                /\ \A s \in UploadSource : ~isReady(s)']_vars

\* C14: when loadTodayUpload finds today's record, the in-memory record is
\* that row; with status 'processing' or 'completed' the stage it resolves
\* is 'processing', with status 'pending' it is 'upload' and the slots show
\* the row's ready flags.
C14_LoadResolvesStageFromRecord ==
    [][\A t \in tasks :
          LoadTodayUploadData(t) =>
             /\ dailyUpload' \in SelectDaily(t.uid, t.name)
             /\ dailyUpload'.processing_status \in {"processing", "completed"}
                   => stage' = "processing"
             /\ dailyUpload'.processing_status = "pending"
                   => /\ stage' = "upload"
                      /\ \E r \in daily_uploads :
                            /\ r.id = dailyUpload'.id
                            /\ \A s \in UploadSource :
                                  isReady(s)' = r.ready[SlotKey(s)]]_vars

\* a login after a logout found the record of a run still being processed
C14_Witness ==
    /\ userId # None /\ tasks = {} /\ ~loading
    /\ stage = "processing"
    /\ dailyUpload # Null /\ dailyUpload \in daily_uploads
    /\ dailyUpload.processing_status = "processing"
    /\ \E tm \in timers : tm.reset /\ tm.rid = dailyUpload.id

\* C15: in every state at rest with an identity, a profile and an in-memory
\* daily-upload record, the stage is 'processing' exactly when the record's
\* status is 'processing' or 'completed', and 'upload' exactly when it is
\* 'pending'.
C15_StageDerivedFromRecord ==
    ( /\ ~initializing /\ tasks = {}
      /\ userId # None /\ profile # Null /\ dailyUpload # Null )
    => /\ stage = "processing"
             <=> dailyUpload.processing_status \in {"processing", "completed"}
       /\ stage = "upload" <=> dailyUpload.processing_status = "pending"

\* C16: when handleLogout completes, the identity, the profile and the
\* in-memory daily-upload record are null, no file is selected and the
\* stage is 'auth'; the session is gone.
C16_LogoutClears ==
    [][\A t \in tasks :
          SignOut(t) =>
             /\ userId' = None
             /\ profile' = Null
             /\ dailyUpload' = Null
             /\ uploadedFiles' = NoFiles
             /\ stage' = "auth"
             /\ session' = None]_vars

\* logged out, at rest, after a record was uploaded and a file selected
C16_Witness ==
    /\ userId = None /\ session = None /\ stage = "auth"
    /\ profile = Null /\ dailyUpload = Null /\ uploadedFiles = NoFiles
    /\ ~initializing /\ tasks = {}
    /\ daily_uploads # {}
    /\ \E tm \in timers : tm.reset

\* C17: a login or signup that the auth collaborator refuses changes neither
\* the stage, the identity, the profile nor the in-memory daily-upload
\* record, in its submission and in its failing step, and what is shown is
\* the collaborator's error message.
C17_FailedAuthLeavesState ==
    [][/\ \A mode \in {"login", "signup"}, email \in Users :
             HandleAuth(mode, email)
                => UNCHANGED <<stage, userId, profile, dailyUpload, session>>
       /\ \A t \in tasks :
             (SignInErr(t) \/ SignUpErr(t)) =>
                /\ UNCHANGED <<stage, userId, profile, dailyUpload, session>>
                /\ error' = "e.message"
                /\ ~loading'
                /\ tasks' = tasks \ {t}]_vars

\* the auth stage showing the error of the one submission made so far
C17_Witness ==
    /\ auths = 1 /\ tasks = {} /\ ~loading /\ ~initializing
    /\ stage = "auth" /\ userId = None /\ session = None
    /\ error = "e.message"
    /\ registered = {"u1"} /\ daily_uploads = {} /\ storage = {}

\* C18: after a login or a signup succeeds with an identity, the profile row
\* of that identity is read, the stage becomes 'onboarding' only if no
\* profile row exists, and otherwise the daily-upload load is what follows.
C18_AuthSuccessReadsProfile ==
    [][\A t \in tasks :
          /\ (SignInOk(t) \/ SignUpOk(t)) =>
                /\ userId' = t.uid
                /\ \E q \in tasks' : q.pc = "profiles.select" /\ q.uid = t.uid
          /\ (t.h = "auth" /\ LoadProfile(t)) =>
                /\ stage' = "onboarding" <=> profiles[t.uid] = NoName
                /\ profiles[t.uid] # NoName =>
                      \E q \in tasks' :
                         q.pc = "daily_uploads.select" /\ q.uid = t.uid]_vars

\* C18, amended: a successful login reads the profile row of its identity;
\* the stage becomes 'onboarding' when no row exists or the read fails, and
\* with a row the daily-upload load follows and the stage waits for it.  A
\* successful signup sets the stage to 'onboarding' at once, without reading
\* the profile: its identity is new and has no profile row.
C18_AuthSuccessGate ==
    [][\A t \in tasks :
          /\ SignInOk(t) =>
                /\ userId' = t.uid
                /\ stage' = stage
                /\ \E q \in tasks' :
                      q.h = "auth" /\ q.pc = "profiles.select" /\ q.uid = t.uid
          /\ SignUpOk(t) =>
                /\ userId' = t.uid
                /\ stage' = "onboarding"
                /\ profiles[t.uid] = NoName
                /\ tasks' = tasks \ {t}
          /\ (t.h = "auth" /\ LoadProfileRow(t)) =>
                /\ stage' = stage
                /\ \E q \in tasks' :
                      /\ q.pc = "daily_uploads.select"
                      /\ q.uid = t.uid /\ q.name = profiles[t.uid]
          /\ (t.h = "auth" /\ (LoadProfileNone(t) \/ LoadProfileErr(t))) =>
                stage' = "onboarding"
          /\ (t.h = "auth" /\ profiles[t.uid] = NoName /\ LoadProfile(t)) =>
                stage' = "onboarding"]_vars

\* a login whose profile read failed: onboarding, though the row exists
C18_Witness ==
    /\ auths >= 1 /\ tasks = {} /\ ~loading
    /\ userId = "u1" /\ session = "u1"
    /\ profiles["u1"] # NoName /\ profile = Null
    /\ stage = "onboarding"

(***************************************************************************)
(* Initialization.                                                         *)
(***************************************************************************)
\* C19: while initializing is true the loading indicator is what is rendered
\* and no stage is: every step taken is a step of init, no handler of a
\* stage runs.  The flag becomes false only in the step that ends init,
\* after the session query and the profile and daily-upload loads it
\* triggered have resolved, and it stays false.
C19_NoStageWhileInitializing ==
    [][/\ initializing =>
             /\ Rendered = "loading"
             /\ \E t \in tasks :
                   /\ t.h = "init"
                   /\ InitGetSession(t) \/ LoadProfile(t) \/ LoadTodayUpload(t)
       /\ (initializing /\ ~initializing') =>
             /\ ~ \E q \in tasks' : q.h = "init"
             /\ Rendered' = stage'
       /\ initializing' => initializing /\ Rendered' = "loading"]_vars

\* the restored session's profile is read, its daily-upload load is pending
C19_Witness ==
    /\ initializing /\ Rendered = "loading"
    /\ userId = "u1" /\ profile # Null
    /\ \E t \in tasks : t.h = "init" /\ t.pc = "daily_uploads.select"

\* C20: the session is queried once, by init: no step issues the query
\* again, and the query is pending only while initializing.  When there is
\* no session or the query fails, the step ends the initialization with
\* stage 'auth' and no identity.
C20_SessionQueriedOnce ==
    [][/\ \A q \in tasks' : q.pc = "getSession" => (q \in tasks /\ initializing')
       /\ Cardinality({q \in tasks : q.pc = "getSession"}) <= 1
       /\ \A t \in tasks :
             (InitSessionNone(t) \/ InitSessionThrows(t)) =>
                /\ stage' = "auth"
                /\ userId' = None
                /\ ~initializing'
                /\ tasks' = tasks \ {t}]_vars

\* the query failed although a session exists: the auth stage, at rest
C20_Witness ==
    /\ auths = 0 /\ ~initializing /\ tasks = {}
    /\ session = "u1" /\ userId = None
    /\ stage = "auth" /\ Rendered = "auth"

(***************************************************************************)
(* Onboarding.                                                             *)
(***************************************************************************)
\* C21: an onboarding submission whose restaurant name is empty after
\* trimming sets the validation error and nothing else: no handler is put
\* in flight, no collaborator is called, stage and profile stay.
C21_EmptyNameRejectedLocally ==
    [][\A n \in TypedNames :
          (Trim(n) = <<>> /\ HandleOnboarding(n)) =>
             /\ error' = "Please enter a restaurant name"
             /\ UNCHANGED <<tasks, stage, profile, loading>>
             /\ UNCHANGED collab]_vars

\* the onboarding stage of a logged-in identity showing the validation error
C21_Witness ==
    /\ stage = "onboarding" /\ ~initializing /\ tasks = {}
    /\ userId # None /\ profile = Null /\ profiles[userId] = NoName
    /\ error = "Please enter a restaurant name"

\* the persisted profile rows
ProfileRows ==
    {[id |-> u, restaurant_name |-> profiles[u]] :
        u \in {v \in Users : profiles[v] # NoName}}

C23_OneCallInFlight ==
    Cardinality({t \in tasks : t.h # "init"}) <= 1

(***************************************************************************)
(* File selection.  The page with a drop zone filters the dropped files    *)
(* by name (handleDrop); the page with the per-source slots passes the     *)
(* file of the input's change event to handleFileSelect as it is, the      *)
(* input's accept=".csv" being a hint to the file dialog.  SpecFiles       *)
(* follows the page through one submission of the auth form, with a user   *)
(* who may pick any file of Files.                                         *)
(***************************************************************************)
InitFiles ==
    InitState /\ auths = MaxAuth - 1 /\ userFiles = Files /\ v1 = Unmounted

SpecFiles == InitFiles /\ [][Next]_vars

\* file.name, as a sequence of characters
FileName(f) ==
    CASE f = "export.csv" -> <<"e", "x", "p", "o", "r", "t", ".", "c", "s", "v">>
      [] f = "menu.pdf"   -> <<"m", "e", "n", "u", ".", "p", "d", "f">>

\* String.prototype.toLowerCase, one character
LowerChar(c) ==
    CASE c = "C" -> "c" [] c = "S" -> "s" [] c = "V" -> "v"
      [] c = "X" -> "x" [] c = "L" -> "l"
      [] OTHER -> c

\* String.prototype.toLowerCase
ToLowerCase(name) == [i \in 1..Len(name) |-> LowerChar(name[i])]

\* String.prototype.endsWith
EndsWith(name, ext) ==
    /\ Len(name) >= Len(ext)
    /\ SubSeq(name, Len(name) - Len(ext) + 1, Len(name)) = ext

\* [".csv", ".xlsx"]
Extensions == {<<".", "c", "s", "v">>, <<".", "x", "l", "s", "x">>}

\* [".csv", ".xlsx"].some((ext) => file.name.toLowerCase().endsWith(ext))
AcceptedName(name) == \E ext \in Extensions : EndsWith(ToLowerCase(name), ext)

\* C24: every file held for upload has a name that ends in .csv or .xlsx,
\* compared case-insensitively; a selected file that fails the check is
\* not kept.
C24_OnlySalesExportsHeld ==
    \A s \in UploadSource :
       uploadedFiles[s] # NoFile => AcceptedName(FileName(uploadedFiles[s]))

\* C25: a handleStartProcessing whose update fails changes neither the
\* persisted records, nor the in-memory record, nor the stage, sets an error
\* message and sets no timer; a timer is set only by a handleStartProcessing
\* whose update succeeded, one per call, and a timer that fires is gone.
C25_FailedStartLeavesState ==
    [][/\ \A t \in tasks :
             UpdateProcessingErr(t) =>
                /\ UNCHANGED <<daily_uploads, dailyUpload, stage, timers>>
                /\ error' # None
                /\ ~loading'
                /\ tasks' = tasks \ {t}
       /\ timers' # timers =>
             /\ Cardinality(timers') > Cardinality(timers) =>
                   /\ \E t \in tasks : UpdateProcessingOk(t)
                   /\ Cardinality(timers') = Cardinality(timers) + 1
             /\ \A tm \in timers : TimerFire(tm) => tm \notin timers']_vars

\* the upload stage after a start whose update failed: the record is
\* 'pending' in memory and persisted, an error shows, no timer is set
C25_Witness ==
    /\ stage = "upload" /\ ~initializing /\ ~loading /\ tasks = {}
    /\ error = "e.message" /\ timers = {}
    /\ uploadedFiles = NoFiles /\ storage # {}
    /\ dailyUpload # Null /\ dailyUpload.processing_status = "pending"
    /\ dailyUpload \in daily_uploads
    /\ \A r \in daily_uploads : r.processing_status = "pending"

\* C26: whenever no handler awaits and no timer is set, the in-memory
\* record has the processing_status of the persisted record with its id.
C26_StatusInSyncAtRest ==
    (tasks = {} /\ timers = {} /\ dailyUpload # Null) =>
       \A r \in daily_uploads :
          r.id = dailyUpload.id =>
             r.processing_status = dailyUpload.processing_status

\* C27: once the initialization is over, a page without an identity is in
\* stage 'auth'.
C27_NoIdentityMeansAuth ==
    (~initializing /\ userId = None) => stage = "auth"

\* C28: an in-memory record belongs to the identity of the session.
C28_RecordOwnedByIdentity ==
    dailyUpload # Null => (userId # None /\ dailyUpload.user_id = userId)

\* C30: in stage 'processing' there is an in-memory record.
C30_ProcessingHasRecord ==
    stage = "processing" => dailyUpload # Null

\* the blobs stored for the records of identity uid
FilesOf(uid) ==
    {o \in storage : \E r \in RowsOf(uid) : o.path[1] = r.restaurant_name}

\* C29: a step of an upload by one identity (its blob write, its upsert)
\* changes no persisted record that another identity reads back (its ready
\* flags, its owner) and leaves every blob stored for such a record.
C29_UploadsIsolated ==
    [][\A t \in tasks :
          (StorageUploadOk(t) \/ UpsertDailyOk(t)) =>
             \A a \in Users \ {t.uid} :
                /\ RowsOf(a)' = RowsOf(a)
                /\ \A o \in FilesOf(a) : o \in storage']_vars

(***************************************************************************)
(* The first version of Home: stages auth, upload, processing; a drop zone *)
(* for several files; a processing_jobs row per upload; the displayed      *)
(* status moved by four setTimeout callbacks.  Its state is the record v1: *)
(* the React state (stage, userId, loading, files, status, error), the     *)
(* handlers in flight (tasks), the pending setTimeout callbacks in the     *)
(* order they were set (timeouts, each with the time left), and the        *)
(* collaborators (user: the identity auth.getUser returns; registered;     *)
(* processing_jobs in the order created; objects of the bucket).  The      *)
(* variables of the second version are left alone.  Time advances in       *)
(* steps of TickMs, which divides the four delays; a callback runs when    *)
(* its time is up, the one set earlier first.                              *)
(***************************************************************************)
page2 == <<client, tasks, timers, collab, auths, userFiles>>

TickMs == 600

\* ProcessingStatus["status"] of the first version, in order
StatusOrder == <<"uploaded", "normalizing", "reconciling", "reporting", "complete">>

StatusRank(st) == CHOOSE i \in 1..Len(StatusOrder) : StatusOrder[i] = st

\* what a user may drop on the drop zone or pick in the file dialog
Dropped == {<<>>, <<"export.csv">>, <<"menu.pdf">>, <<"menu.pdf", "export.csv">>}

\* the handler h of the first version, suspended at await pc, with the
\* userId and files of its closure and the index of its upload loop
TaskV1(h, pc, uid, files, i) ==
    [h |-> h, pc |-> pc, uid |-> uid, files |-> files, i |-> i]

\* useState defaults, and init() of the mount effect awaiting getUser.
\* u1 may still have a session, and may have a job from an earlier day.
InitV1 ==
    /\ InitState /\ session = None /\ profiles = [u \in Users |-> NoName]
    /\ auths = 0 /\ userFiles = {"export.csv"}
    /\ \E user \in {None, "u1"},
          jobs \in {<<>>, <<[user_id |-> "u1", status |-> "uploaded"]>>} :
          v1 = [Unmounted EXCEPT
                   !.tasks = {TaskV1("init", "getUser", None, <<>>, 0)},
                   !.user = user,
                   !.processing_jobs = jobs]

\* init: const { data } = await supabase.auth.getUser();
\* if (data.user) { setUserId; await restoreProcessingState(...) up to its select }
InitGetUser(t) ==
    /\ t \in v1.tasks /\ t.h = "init" /\ t.pc = "getUser"
    /\ IF v1.user # None
       THEN v1' = [v1 EXCEPT
                      !.userId = v1.user,
                      !.tasks = (v1.tasks \ {t}) \cup
                         {TaskV1("init", "processing_jobs.select", v1.user, <<>>, 0)}]
       ELSE v1' = [v1 EXCEPT !.tasks = v1.tasks \ {t}]
    /\ UNCHANGED page2

\* the rows of processing_jobs with user_id uid, in the order created
JobsOf(uid) == SelectSeq(v1.processing_jobs, LAMBDA j : j.user_id = uid)

\* restoreProcessingState: select ... eq(user_id).order(created_at desc)
\* .limit(1).maybeSingle(); if (!error && data) { setStatus; setStage }
RestoreData(t) ==
    /\ t \in v1.tasks /\ t.h = "init" /\ t.pc = "processing_jobs.select"
    /\ JobsOf(t.uid) # <<>>
    /\ LET data == JobsOf(t.uid)[Len(JobsOf(t.uid))]
       IN  v1' = [v1 EXCEPT
                     !.status = [status |-> data.status],
                     !.stage = "processing",
                     !.tasks = v1.tasks \ {t}]
    /\ UNCHANGED page2

\* the select returns an error, or no row
RestoreNone(t) ==
    /\ t \in v1.tasks /\ t.h = "init" /\ t.pc = "processing_jobs.select"
    /\ v1' = [v1 EXCEPT !.tasks = v1.tasks \ {t}]
    /\ UNCHANGED page2

RestoreProcessingState(t) == RestoreData(t) \/ RestoreNone(t)

\* handleAuth of the first version, up to its await; the button is
\* disabled={loading} and shown in stage 'auth'
HandleAuthV1(authMode, email) ==
    /\ v1.stage = "auth" /\ ~v1.loading
    /\ v1.auths < MaxAuth
    /\ v1' = [v1 EXCEPT
                 !.error = None,
                 !.loading = TRUE,
                 !.auths = v1.auths + 1,
                 !.tasks = v1.tasks \cup
                    {TaskV1("auth",
                            IF authMode = "login" THEN "signInWithPassword"
                            ELSE "signUp", email, <<>>, 0)}]
    /\ UNCHANGED page2

\* signInWithPassword / signUp resolved with a user:
\* setUserId(data.user?.id ?? null); setStage("upload"); finally
AuthOk(t) ==
    /\ t \in v1.tasks /\ t.h = "auth"
    /\ \/ t.pc = "signInWithPassword" /\ t.uid \in v1.registered
       \/ t.pc = "signUp" /\ t.uid \notin v1.registered
    /\ v1' = [v1 EXCEPT
                 !.registered = v1.registered \cup {t.uid},
                 !.user = t.uid,
                 !.userId = t.uid,
                 !.stage = "upload",
                 !.loading = FALSE,
                 !.tasks = v1.tasks \ {t}]
    /\ UNCHANGED page2

\* error: throw, catch (setError), finally
AuthErr(t) ==
    /\ t \in v1.tasks /\ t.h = "auth"
    /\ v1' = [v1 EXCEPT
                 !.error = "e.message",
                 !.loading = FALSE,
                 !.tasks = v1.tasks \ {t}]
    /\ UNCHANGED page2

AuthV1(t) == AuthOk(t) \/ AuthErr(t)

\* handleDrop: if (!dropped) return;
\* setFiles(Array.from(dropped).filter(the name ends with an extension))
HandleDrop(dropped) ==
    /\ v1.stage = "upload"
    /\ v1' = [v1 EXCEPT
                 !.files = SelectSeq(dropped, LAMBDA f : AcceptedName(FileName(f)))]
    /\ UNCHANGED page2

\* handleUpload up to its first await; the button is
\* disabled={loading || files.length === 0} and shown in stage 'upload'
HandleUpload ==
    /\ v1.stage = "upload" /\ ~v1.loading /\ v1.files # <<>>
    /\ IF v1.userId = None
       THEN UNCHANGED v1
       ELSE v1' = [v1 EXCEPT
                      !.loading = TRUE,
                      !.error = None,
                      !.tasks = v1.tasks \cup
                         {TaskV1("upload", "storage.upload", v1.userId, v1.files, 1)}]
    /\ UNCHANGED page2

\* for (const file of files): await storage.upload(`${userId}/...-${file.name}`)
\* resolved without error; after the last file the insert is awaited
ObjectUploadOk(t) ==
    /\ t \in v1.tasks /\ t.h = "upload" /\ t.pc = "storage.upload"
    /\ v1' = [v1 EXCEPT
                 !.objects = v1.objects \cup
                    {[owner |-> t.uid, file |-> t.files[t.i]]},
                 !.tasks = (v1.tasks \ {t}) \cup
                    {IF t.i < Len(t.files)
                     THEN [t EXCEPT !.i = t.i + 1]
                     ELSE [t EXCEPT !.pc = "processing_jobs.insert"]}]
    /\ UNCHANGED page2

\* error: throw, catch (setError), finally
UploadErr(t) ==
    /\ t \in v1.tasks /\ t.h = "upload"
    /\ v1' = [v1 EXCEPT
                 !.error = "e.message",
                 !.loading = FALSE,
                 !.tasks = v1.tasks \ {t}]
    /\ UNCHANGED page2

\* a delay in ticks
After(ms) == ms \div TickMs

\* the four setTimeout(() => setStatus(...), delay) of handleUpload
StatusTimeouts ==
    <<[left |-> After(1200), status |-> "normalizing"],
      [left |-> After(3600), status |-> "reconciling"],
      [left |-> After(6000), status |-> "reporting"],
      [left |-> After(9000), status |-> "complete"]>>

\* await processing_jobs.insert({ user_id, status: "uploaded" }).select().single()
\* resolved with the row: setStatus, setStage("processing"), the four
\* setTimeout, finally
InsertJobOk(t) ==
    /\ t \in v1.tasks /\ t.h = "upload" /\ t.pc = "processing_jobs.insert"
    /\ LET data == [user_id |-> t.uid, status |-> "uploaded"]
       IN  v1' = [v1 EXCEPT
                     !.processing_jobs = Append(v1.processing_jobs, data),
                     !.status = [status |-> data.status],
                     !.stage = "processing",
                     !.timeouts = v1.timeouts \o StatusTimeouts,
                     !.loading = FALSE,
                     !.tasks = v1.tasks \ {t}]
    /\ UNCHANGED page2

UploadStep(t) == ObjectUploadOk(t) \/ InsertJobOk(t) \/ UploadErr(t)

\* TickMs pass while no callback is due
Tick ==
    /\ v1.timeouts # <<>>
    /\ \A i \in 1..Len(v1.timeouts) : v1.timeouts[i].left > 0
    /\ v1' = [v1 EXCEPT
                 !.timeouts = [i \in 1..Len(v1.timeouts) |->
                                  [v1.timeouts[i] EXCEPT !.left = @ - 1]]]
    /\ UNCHANGED page2

\* the callback that is due and was set first runs: setStatus({ status })
TimeoutFire ==
    /\ \E i \in 1..Len(v1.timeouts) : v1.timeouts[i].left = 0
    /\ LET i == CHOOSE i \in 1..Len(v1.timeouts) :
                   /\ v1.timeouts[i].left = 0
                   /\ \A j \in 1..(i - 1) : v1.timeouts[j].left > 0
       IN  v1' = [v1 EXCEPT
                     !.status = [status |-> v1.timeouts[i].status],
                     !.timeouts = SubSeq(v1.timeouts, 1, i - 1) \o
                                  SubSeq(v1.timeouts, i + 1, Len(v1.timeouts))]
    /\ UNCHANGED page2

\* handleLogout of the first version, up to its await; the button is shown
\* while userId is set
HandleLogoutV1 ==
    /\ v1.userId # None
    /\ v1' = [v1 EXCEPT
                 !.tasks = v1.tasks \cup {TaskV1("logout", "signOut", None, <<>>, 0)}]
    /\ UNCHANGED page2

\* await signOut(); setUserId(null); setStage("auth"); setFiles([]); setStatus(null)
SignOutV1(t) ==
    /\ t \in v1.tasks /\ t.h = "logout" /\ t.pc = "signOut"
    /\ v1' = [v1 EXCEPT
                 !.user = None,
                 !.userId = None,
                 !.stage = "auth",
                 !.files = <<>>,
                 !.status = Null,
                 !.tasks = v1.tasks \ {t}]
    /\ UNCHANGED page2

NextV1 ==
    \/ \E t \in v1.tasks : InitGetUser(t)
    \/ \E t \in v1.tasks : RestoreProcessingState(t)
    \/ \E authMode \in {"login", "signup"}, email \in Users : HandleAuthV1(authMode, email)
    \/ \E t \in v1.tasks : AuthV1(t)
    \/ \E dropped \in Dropped : HandleDrop(dropped)
    \/ HandleUpload
    \/ \E t \in v1.tasks : UploadStep(t)
    \/ Tick
    \/ TimeoutFire
    \/ HandleLogoutV1
    \/ \E t \in v1.tasks : SignOutV1(t)

SpecV1 == InitV1 /\ [][NextV1]_vars

\* the status the processing view shows, null where it is not rendered
Displayed == IF v1.stage = "processing" THEN v1.status ELSE Null

\* C31: in the first version of Home the displayed processing status never
\* moves backward along uploaded, normalizing, reconciling, reporting,
\* complete, and a status is displayed only for a session (a userId) that
\* has a processing job.
C31_StatusForwardAndOwned ==
    [][Displayed' # Null =>
          /\ Displayed # Null =>
                StatusRank(Displayed'.status) >= StatusRank(Displayed.status)
          /\ v1'.userId # None
          /\ \E i \in 1..Len(v1'.processing_jobs) :
                v1'.processing_jobs[i].user_id = v1'.userId]_vars

====
